---------------------------- MODULE Spec2Model ----------------------------
(***************************************************************************)
(* A model of ropoly's gadget enumeration and fingerprint comparison:      *)
(*   lib/GadgetsFromProcess.go  GadgetsFromProcess                         *)
(*   lib/DisassembleFile        DisassembleFile          (unnamed/part_000) *)
(*   lib/Fingerprint.go         Fingerprint, compareFingerprints,          *)
(*                              compareFingerprintRegions                  *)
(*   handlers                   the HTTP handlers        (unnamed/part_001) *)
(*   lib/architectures/amd64/x86Decoder.go                                 *)
(*                              InstructionDecoder, GadgetDecoder          *)
(*                                                                         *)
(* Four specifications share the module's variables:                       *)
(*   Spec         one run of an enumerating operation                      *)
(*   SpecCompare  compareFingerprints applied to a pair of fingerprints    *)
(*   SpecHTTP     one request answered by an HTTP handler                  *)
(*   SpecDecode   GadgetDecoder applied to a byte slice                    *)
(***************************************************************************)
EXTENDS Integers, Sequences, FiniteSets, TLC

(***************************************************************************)
(* Bounds of the model.                                                    *)
(***************************************************************************)
\* gadgets OperateOnGadgets emits in one pass
MaxEmit == 3
\* gadget addresses held by one fingerprint handed to compareFingerprints
MaxGadgets == 2
\* bytes of the slice handed to GadgetDecoder
MaxBytes == 3

(***************************************************************************)
(* 64-bit unsigned integers (uintptr, disasm.Ptr, uint64 on amd64), kept   *)
(* at full width as four 16-bit limbs, most significant first.             *)
(***************************************************************************)
Limb == 2^16

U64(n) == <<0, 0, 0, n>>

Zero64 == U64(0)

\* a - b modulo 2^64 (Go's unsigned subtraction)
Sub64(a, b) ==
    LET d4 == a[4] - b[4]
        w4 == IF d4 < 0 THEN 1 ELSE 0
        d3 == a[3] - b[3] - w4
        w3 == IF d3 < 0 THEN 1 ELSE 0
        d2 == a[2] - b[2] - w3
        w2 == IF d2 < 0 THEN 1 ELSE 0
        d1 == a[1] - b[1] - w2
    IN  <<d1 % Limb, d2 % Limb, d3 % Limb, d4 % Limb>>

\* a + b modulo 2^64 (Go's unsigned addition)
Add64(a, b) ==
    LET s4 == a[4] + b[4]
        s3 == a[3] + b[3] + (s4 \div Limb)
        s2 == a[2] + b[2] + (s3 \div Limb)
        s1 == a[1] + b[1] + (s2 \div Limb)
    IN  <<s1 % Limb, s2 % Limb, s3 % Limb, s4 % Limb>>

\* a < b as unsigned 64-bit integers
Less64(a, b) ==
    \E i \in 1..4 : a[i] < b[i] /\ \A j \in 1..(i - 1) : a[j] = b[j]

Leq64(a, b) == a = b \/ Less64(a, b)

(***************************************************************************)
(* Go maps as functions with a finite domain, slices as sequences.         *)
(***************************************************************************)
EmptyMap == [x \in {} |-> x]

MapPut(m, k, v) == [x \in DOMAIN m \cup {k} |-> IF x = k THEN v ELSE m[x]]

\* m[k] of a map of slices: the nil slice when k is absent
MapGet(m, k) == IF k \in DOMAIN m THEN m[k] ELSE <<>>

\* all orders in which a range loop can visit the keys S
Orders(S) ==
    {o \in [1..Cardinality(S) -> S] : \A i, j \in DOMAIN o : i # j => o[i] # o[j]}

Range(s) == {s[i] : i \in DOMAIN s}

RECURSIVE Concat(_)
Concat(ss) == IF ss = <<>> THEN <<>> ELSE Head(ss) \o Concat(Tail(ss))

(***************************************************************************)
(* The data the operations work on.                                        *)
(***************************************************************************)
Kinds == {".text", ".plt", "[heap]"}

\* Sig: the joined disassembly of a gadget; one start address can carry
\* gadgets of different lengths, hence of different Sigs
Sigs == {"RET", "RET; RET"}

\* memaccess.MemoryRegion
MemoryRegion(a, s, k) == [Address |-> a, Size |-> s, Kind |-> k]

NoRegionAvailable == MemoryRegion(Zero64, 0, "")

\* what the region source can yield, in address order; two mappings may
\* share a kind
RegionPool ==
    { MemoryRegion(U64(4096), 2, ".text"),
      MemoryRegion(U64(8192), 2, ".plt"),
      MemoryRegion(U64(12288), 2, ".text") }

Gadget(a, sig) == [Address |-> a, Signature |-> sig]

\* the slices a decoder can return for one region: gadgets (or instructions)
\* at ascending addresses of the region
RegionYield(region) ==
    LET a0 == region.Address
        a1 == Add64(region.Address, U64(1))
    IN  { <<>>,
          <<Gadget(a1, "RET")>>,
          <<Gadget(a0, "RET"), Gadget(a0, "RET; RET"), Gadget(a1, "RET")>> }

\* the soft errors one step can report
SoftChoices(tag, at) == { <<>>, <<[step |-> tag, at |-> at]>> }

Slice(elems) == [isNil |-> FALSE, elems |-> elems]

NilSlice == [isNil |-> TRUE, elems |-> <<>>]


(***************************************************************************)
(* State.                                                                  *)
(***************************************************************************)
VARIABLES
    op,               \* the operation this run executes
    step,             \* its position
    pid,              \* GadgetsFromProcess: the target process
    deferred,         \* a deferred call (PtraceDetach, b.close) is registered
    pc,               \* the address the region source continues from
    softerrors,       \* GadgetsFromProcess, OperateOnGadgets: accumulated soft errors
    allGadgets,       \* GadgetsFromProcess: accumulated gadgets
    sect,             \* DisassembleFile: sectionExists, addr/progData, err
    softerrs,         \* DisassembleFile: accumulated soft errors
    allInstructions,  \* DisassembleFile: accumulated instructions
    section,          \* Fingerprint: the region the gadgets now belong to
    fingerprint,      \* Fingerprint: kind -> FingerprintRegion
    ret,              \* the triple the operation returned
    sys,              \* the calls made on the process, the file and memory, in order
    reported,         \* every soft error any step reported, in order
    emitted,          \* every (region, gadget) produced by a decoder, in order
    old, new,         \* compareFingerprints: its arguments
    cmp,              \* compareFingerprints: its result
    req,              \* HTTP: the request and what the library answers to it
    resp,             \* HTTP: the response
    opcodes,          \* GadgetDecoder: the bytes not yet decoded
    gadgetDec,        \* GadgetDecoder: its local gadget, the instructions appended so far
    decoded           \* GadgetDecoder: the pair it returned

enumVars == <<op, step, pid, deferred, pc, softerrors, allGadgets, sect, softerrs,
              allInstructions, section, fingerprint, ret, sys, reported, emitted>>
cmpVars == <<old, new, cmp>>
httpVars == <<req, resp>>
decVars == <<opcodes, gadgetDec, decoded>>
vars == <<enumVars, cmpVars, httpVars, decVars>>

\* os.Getpid(): the inspector's own pid
Getpid == 4242

Pids == {0, Getpid, Getpid + 1}

NoRet == [result |-> NilSlice, harderror |-> "nil", softerrors |-> NilSlice]

\* GadgetDecoder has not returned
NoGadget == [gadget |-> NilSlice, err |-> "nil"]

NoSect == [sectionExists |-> FALSE, region |-> NoRegionAvailable, err |-> "nil"]

\* the regions the source can yield next: those at or above pc
Available == {r \in RegionPool : Leq64(pc, r.Address)}

After(region) == Add64(region.Address, U64(region.Size))

Emitted(region, gadgets) ==
    [i \in 1..Len(gadgets) |-> [region |-> region, gadget |-> gadgets[i]]]

(***************************************************************************)
(* GadgetsFromProcess (lib/GadgetsFromProcess.go)                          *)
(***************************************************************************)
gfpFrame == <<op, pid, sect, softerrs, allInstructions, section, fingerprint>>

\* a return statement of GadgetsFromProcess: the deferred PtraceDetach, when
\* registered, runs before the caller gets the triple; calls is the log of
\* the calls made so far
GFPReturnSkipsDetachOnError(result, harderror, softs, calls) ==
    /\ ret' = [result |-> result, harderror |-> harderror, softerrors |-> softs]
    /\ sys' = IF deferred /\ harderror = "nil"
              THEN Append(calls, <<"PtraceDetach", pid>>) ELSE calls
    /\ step' = "done"

GFPReturn(result, harderror, softs, calls) ==
    /\ ret' = [result |-> result, harderror |-> harderror, softerrors |-> softs]
    /\ sys' = IF deferred THEN Append(calls, <<"PtraceDetach", pid>>) ELSE calls
    /\ step' = "done"

\* pid is the inspector itself: no attach
GFP_Self ==
    /\ op = "GadgetsFromProcess" /\ step = "start"
    /\ pid = Getpid
    /\ step' = "loop"
    /\ UNCHANGED <<deferred, pc, softerrors, allGadgets, ret, sys, reported, emitted>>
    /\ UNCHANGED <<gfpFrame, cmpVars, httpVars, decVars>>

\* PtraceAttach succeeds: the detach is deferred
GFP_Attach ==
    /\ op = "GadgetsFromProcess" /\ step = "start"
    /\ pid # Getpid
    /\ sys' = Append(sys, <<"PtraceAttach", pid>>)
    /\ deferred' = TRUE
    /\ step' = "loop"
    /\ UNCHANGED <<pc, softerrors, allGadgets, ret, reported, emitted>>
    /\ UNCHANGED <<gfpFrame, cmpVars, httpVars, decVars>>

\* PtraceAttach fails: return before the defer statement
GFP_AttachFail ==
    /\ op = "GadgetsFromProcess" /\ step = "start"
    /\ pid # Getpid
    /\ GFPReturn(NilSlice, "PtraceAttach", NilSlice, Append(sys, <<"PtraceAttach", pid>>))
    /\ UNCHANGED <<deferred, pc, softerrors, allGadgets, reported, emitted>>
    /\ UNCHANGED <<gfpFrame, cmpVars, httpVars, decVars>>

\* NextMemoryRegionAccess returns a hard error
GFP_NextHardError ==
    /\ op = "GadgetsFromProcess" /\ step = "loop"
    /\ \E softerrors2 \in SoftChoices("NextMemoryRegionAccess", pc) :
         /\ softerrors' = softerrors \o softerrors2
         /\ reported' = reported \o softerrors2
         /\ GFPReturn(NilSlice, "NextMemoryRegionAccess", Slice(softerrors'),
                      Append(sys, <<"NextMemoryRegionAccess", pc>>))
    /\ UNCHANGED <<deferred, pc, allGadgets, emitted>>
    /\ UNCHANGED <<gfpFrame, cmpVars, httpVars, decVars>>

\* NextMemoryRegionAccess returns NoRegionAvailable: break, return allGadgets
GFP_NoRegion ==
    /\ op = "GadgetsFromProcess" /\ step = "loop"
    /\ \E softerrors2 \in SoftChoices("NextMemoryRegionAccess", pc) :
         /\ softerrors' = softerrors \o softerrors2
         /\ reported' = reported \o softerrors2
         /\ GFPReturn(Slice(allGadgets), "nil", Slice(softerrors'),
                      Append(sys, <<"NextMemoryRegionAccess", pc>>))
    /\ UNCHANGED <<deferred, pc, allGadgets, emitted>>
    /\ UNCHANGED <<gfpFrame, cmpVars, httpVars, decVars>>

\* a region is found and CopyMemory returns a hard error (pid # 0 only):
\* the soft errors CopyMemory returned with it are not appended
GFP_CopyHardError ==
    /\ op = "GadgetsFromProcess" /\ step = "loop"
    /\ pid # 0
    /\ \E region \in Available :
       \E softerrors2 \in SoftChoices("NextMemoryRegionAccess", pc) :
       \E softerrors3 \in SoftChoices("CopyMemory", region.Address) :
         /\ softerrors' = softerrors \o softerrors2
         /\ reported' = reported \o softerrors2 \o softerrors3
         /\ pc' = After(region)
         /\ GFPReturn(NilSlice, "CopyMemory", Slice(softerrors'),
                      sys \o << <<"NextMemoryRegionAccess", pc>>,
                                <<"CopyMemory", region.Address>> >>)
    /\ UNCHANGED <<deferred, allGadgets, emitted>>
    /\ UNCHANGED <<gfpFrame, cmpVars, httpVars, decVars>>

\* the loop body without softerrors = append(softerrors, softerrors3...)
GFP_RegionDropsCopySoftErrors ==
    /\ op = "GadgetsFromProcess" /\ step = "loop"
    /\ \E region \in Available :
       \E softerrors2 \in SoftChoices("NextMemoryRegionAccess", pc) :
       \E softerrors3 \in (IF pid = 0 THEN {<<>>}
                            ELSE SoftChoices("CopyMemory", region.Address)) :
       \E gadgets \in RegionYield(region) :
       \E errs \in SoftChoices("GetAllGadgets", region.Address) :
         /\ softerrors' = softerrors \o softerrors2 \o errs
         /\ reported' = reported \o softerrors2 \o softerrors3 \o errs
         /\ allGadgets' = allGadgets \o gadgets
         /\ emitted' = emitted \o Emitted(region, gadgets)
         /\ pc' = After(region)
         /\ sys' = sys \o << <<"NextMemoryRegionAccess", pc>> >>
                       \o (IF pid = 0 THEN <<>>
                           ELSE << <<"CopyMemory", region.Address>> >>)
    /\ UNCHANGED <<deferred, step, ret>>
    /\ UNCHANGED <<gfpFrame, cmpVars, httpVars, decVars>>

\* a region is found, copied (pid # 0) and searched for gadgets
GFP_Region ==
    /\ op = "GadgetsFromProcess" /\ step = "loop"
    /\ \E region \in Available :
       \E softerrors2 \in SoftChoices("NextMemoryRegionAccess", pc) :
       \E softerrors3 \in (IF pid = 0 THEN {<<>>}
                            ELSE SoftChoices("CopyMemory", region.Address)) :
       \E gadgets \in RegionYield(region) :
       \E errs \in SoftChoices("GetAllGadgets", region.Address) :
         /\ softerrors' = softerrors \o softerrors2 \o softerrors3 \o errs
         /\ reported' = reported \o softerrors2 \o softerrors3 \o errs
         /\ allGadgets' = allGadgets \o gadgets
         /\ emitted' = emitted \o Emitted(region, gadgets)
         /\ pc' = After(region)
         /\ sys' = sys \o << <<"NextMemoryRegionAccess", pc>> >>
                       \o (IF pid = 0 THEN <<>>
                           ELSE << <<"CopyMemory", region.Address>> >>)
    /\ UNCHANGED <<deferred, step, ret>>
    /\ UNCHANGED <<gfpFrame, cmpVars, httpVars, decVars>>


(***************************************************************************)
(* DisassembleFile (unnamed/part_000)                                      *)
(***************************************************************************)
dfFrame == <<op, pid, softerrors, allGadgets, section, fingerprint>>

\* what b.nextSectionData() can return: a section at or above the position
\* at, a failure, or the end of the sections (with or without an error)
SectionOutcomes(at) ==
    {[sectionExists |-> TRUE, region |-> r, err |-> "nil"] :
        r \in {x \in RegionPool : Leq64(at, x.Address)}}
    \cup {[sectionExists |-> e, region |-> NoRegionAvailable, err |-> "nextSectionData"] :
             e \in BOOLEAN}
    \cup {NoSect}

\* a Go slice that is nil until something is appended to it
NilUnlessAppended(elems) == [isNil |-> elems = <<>>, elems |-> elems]

\* a return statement of DisassembleFile: the deferred b.close(), when
\* registered, runs first
DFReturn(result, harderror, softs, calls) ==
    /\ ret' = [result |-> result, harderror |-> harderror, softerrors |-> softs]
    /\ sys' = IF deferred THEN Append(calls, <<"close">>) ELSE calls
    /\ step' = "done"

\* openBinary fails
DF_OpenFail ==
    /\ op = "DisassembleFile" /\ step = "start"
    /\ DFReturn(NilSlice, "openBinary", NilSlice, Append(sys, <<"openBinary">>))
    /\ UNCHANGED <<deferred, pc, sect, softerrs, allInstructions, reported, emitted>>
    /\ UNCHANGED <<dfFrame, cmpVars, httpVars, decVars>>

\* openBinary succeeds, b.close is deferred, the first section is asked for
DF_Open ==
    /\ op = "DisassembleFile" /\ step = "start"
    /\ deferred' = TRUE
    /\ sect' \in SectionOutcomes(pc)
    /\ sys' = sys \o << <<"openBinary">>, <<"nextSectionData">> >>
    /\ step' = "loop"
    /\ UNCHANGED <<pc, softerrs, allInstructions, ret, reported, emitted>>
    /\ UNCHANGED <<dfFrame, cmpVars, httpVars, decVars>>

\* loop body, err # nil: everything collected so far is dropped
DF_SectionError ==
    /\ op = "DisassembleFile" /\ step = "loop"
    /\ sect.sectionExists /\ sect.err # "nil"
    /\ DFReturn(NilSlice, sect.err, NilSlice, sys)
    /\ UNCHANGED <<deferred, pc, sect, softerrs, allInstructions, reported, emitted>>
    /\ UNCHANGED <<dfFrame, cmpVars, httpVars, decVars>>

\* loop body, err = nil: disassemble the section, ask for the next one
DF_Section ==
    /\ op = "DisassembleFile" /\ step = "loop"
    /\ sect.sectionExists /\ sect.err = "nil"
    /\ \E instructions \in RegionYield(sect.region) :
       \E errors \in SoftChoices("Disasm", sect.region.Address) :
         /\ softerrs' = softerrs \o errors
         /\ reported' = reported \o errors
         /\ allInstructions' = allInstructions \o instructions
         /\ emitted' = emitted \o Emitted(sect.region, instructions)
    /\ pc' = After(sect.region)
    /\ sect' \in SectionOutcomes(pc')
    /\ sys' = sys \o << <<"Disasm", sect.region.Address>>, <<"nextSectionData">> >>
    /\ UNCHANGED <<deferred, step, ret>>
    /\ UNCHANGED <<dfFrame, cmpVars, httpVars, decVars>>

\* the loop ends (sectionExists is false, whatever err is)
DF_Finish ==
    /\ op = "DisassembleFile" /\ step = "loop"
    /\ ~sect.sectionExists
    /\ DFReturn(NilUnlessAppended(allInstructions), "nil", NilUnlessAppended(softerrs), sys)
    /\ UNCHANGED <<deferred, pc, sect, softerrs, allInstructions, reported, emitted>>
    /\ UNCHANGED <<dfFrame, cmpVars, httpVars, decVars>>

(***************************************************************************)
(* Fingerprint (lib/Fingerprint.go), driven by OperateOnGadgets            *)
(***************************************************************************)
fpFrame == <<op, pid, deferred, allGadgets, sect, softerrs, allInstructions, sys>>

\* the region callback: section = region
regionOp(region) == region

\* the gadget callback, on the fingerprint map fp with current region sec
gadgetOpAlwaysAllocates(fp, sec, gadget) ==
    LET fp1 == MapPut(fp, sec.Kind, [Region |-> sec, Gadgets |-> EmptyMap])
        gs == fp1[sec.Kind].Gadgets
    IN  MapPut(fp1, sec.Kind,
               [fp1[sec.Kind] EXCEPT !.Gadgets =
                    MapPut(gs, gadget.Signature,
                           Append(MapGet(gs, gadget.Signature), gadget.Address))])

gadgetOp(fp, sec, gadget) ==
    LET fp1 == IF sec.Kind \notin DOMAIN fp
               THEN MapPut(fp, sec.Kind, [Region |-> sec, Gadgets |-> EmptyMap])
               ELSE fp
        gs == fp1[sec.Kind].Gadgets
    IN  MapPut(fp1, sec.Kind,
               [fp1[sec.Kind] EXCEPT !.Gadgets =
                    MapPut(gs, gadget.Signature,
                           Append(MapGet(gs, gadget.Signature), gadget.Address))])

\* instructions of the gadget behind a Sig
SigLen(sig) == IF sig = "RET" THEN 1 ELSE 2

\* the gadgets the extractor can emit next in region: start addresses
\* ascending, gadgets of one start by ascending length
NextGadgets(region) ==
    LET last == emitted[Len(emitted)].gadget
        fresh == emitted = <<>> \/ emitted[Len(emitted)].region # region
    IN  {g \in {Gadget(a, sig) : a \in {region.Address, Add64(region.Address, U64(1))},
                                 sig \in Sigs} :
            \/ fresh
            \/ Less64(last.Address, g.Address)
            \/ last.Address = g.Address /\ SigLen(last.Signature) < SigLen(g.Signature)}

\* Fingerprint's return statement, once OperateOnGadgets has returned
FingerprintReturn(harderror, softs) ==
    /\ ret' = [result |-> fingerprint, harderror |-> harderror, softerrors |-> softs]
    /\ step' = "done"

\* OperateOnGadgets finds the next region and calls the region callback
OG_Region ==
    /\ op = "Fingerprint" /\ step \in {"start", "loop"}
    /\ \E region \in Available :
       \E errs \in SoftChoices("region", region.Address) :
         /\ section' = regionOp(region)
         /\ pc' = After(region)
         /\ softerrors' = softerrors \o errs
         /\ reported' = reported \o errs
    /\ step' = "loop"
    /\ UNCHANGED <<fingerprint, ret, emitted>>
    /\ UNCHANGED <<fpFrame, cmpVars, httpVars, decVars>>

\* OperateOnGadgets emits a gadget of the current region to the gadget callback
OG_Gadget ==
    /\ op = "Fingerprint" /\ step = "loop"
    /\ Len(emitted) < MaxEmit
    /\ \E gadget \in NextGadgets(section) :
         /\ fingerprint' = gadgetOp(fingerprint, section, gadget)
         /\ emitted' = Append(emitted, [region |-> section, gadget |-> gadget])
    /\ UNCHANGED <<step, section, pc, softerrors, ret, reported>>
    /\ UNCHANGED <<fpFrame, cmpVars, httpVars, decVars>>

\* OperateOnGadgets fails with a hard error; Fingerprint returns
OG_HardError ==
    /\ op = "Fingerprint" /\ step \in {"start", "loop"}
    /\ FingerprintReturn("OperateOnGadgets", Slice(softerrors))
    /\ UNCHANGED <<section, fingerprint, pc, softerrors, reported, emitted>>
    /\ UNCHANGED <<fpFrame, cmpVars, httpVars, decVars>>

\* OperateOnGadgets runs out of regions; Fingerprint returns
OG_Done ==
    /\ op = "Fingerprint" /\ step \in {"start", "loop"}
    /\ FingerprintReturn("nil", Slice(softerrors))
    /\ UNCHANGED <<section, fingerprint, pc, softerrors, reported, emitted>>
    /\ UNCHANGED <<fpFrame, cmpVars, httpVars, decVars>>

(***************************************************************************)
(* The enumerating operations: one run of one of them.                     *)
(***************************************************************************)
\* the variables of the other specifications, at rest
DecIdle == opcodes = <<>> /\ gadgetDec = <<>> /\ decoded = NoGadget

Idle ==
    /\ old = EmptyMap /\ new = EmptyMap
    /\ cmp = [RemovedRegions |-> <<>>, AddedRegions |-> <<>>,
              SharedRegionComparisons |-> <<>>]
    /\ req = "none" /\ resp = "none"
    /\ DecIdle

EnumIdle ==
    /\ pid = 0 /\ deferred = FALSE
    /\ pc = Zero64 /\ softerrors = <<>> /\ allGadgets = <<>>
    /\ sect = NoSect /\ softerrs = <<>> /\ allInstructions = <<>>
    /\ section = NoRegionAvailable /\ fingerprint = EmptyMap
    /\ ret = NoRet /\ sys = <<>> /\ reported = <<>> /\ emitted = <<>>

Init ==
    /\ op \in {"GadgetsFromProcess", "DisassembleFile", "Fingerprint"}
    /\ step = "start"
    /\ pid \in (IF op = "GadgetsFromProcess" THEN Pids ELSE {0})
    /\ deferred = FALSE
    /\ pc = Zero64
    /\ softerrors = <<>> /\ allGadgets = <<>>
    /\ sect = NoSect /\ softerrs = <<>> /\ allInstructions = <<>>
    /\ section = NoRegionAvailable /\ fingerprint = EmptyMap
    /\ ret = NoRet /\ sys = <<>> /\ reported = <<>> /\ emitted = <<>>
    /\ Idle

Next ==
    \/ GFP_Self \/ GFP_Attach \/ GFP_AttachFail \/ GFP_NextHardError
    \/ GFP_NoRegion \/ GFP_CopyHardError \/ GFP_Region
    \/ DF_OpenFail \/ DF_Open \/ DF_SectionError \/ DF_Section \/ DF_Finish
    \/ OG_Region \/ OG_Gadget \/ OG_HardError \/ OG_Done

Spec == Init /\ [][Next]_vars


(***************************************************************************)
(* compareFingerprints and compareFingerprintRegions (lib/Fingerprint.go)  *)
(***************************************************************************)
\* offsets[j] = uint64(newAddresses[j] - oldAddress)
OffsetsSkipsFirst(newAddresses, oldAddress) ==
    [j \in 1..Len(newAddresses) |->
        IF j = 1 THEN Zero64 ELSE Sub64(newAddresses[j], oldAddress)]

Offsets(newAddresses, oldAddress) ==
    [j \in 1..Len(newAddresses) |-> Sub64(newAddresses[j], oldAddress)]

\* the (sig, oldAddress) pairs in the order the two nested loops visit them,
\* the range over old.Gadgets visiting the Sigs in the order sigOrder
Visits(oldGadgets, sigOrder) ==
    Concat([k \in DOMAIN sigOrder |->
              [i \in DOMAIN oldGadgets[sigOrder[k]] |->
                  [sig |-> sigOrder[k], oldAddress |-> oldGadgets[sigOrder[k]][i]]]])

\* ret.GadgetDisplacements[oldAddress] = offsets, visit after visit: the map
\* is keyed by the address alone, a later visit of an address replaces the
\* entry of an earlier one
RECURSIVE RecordDisplacements(_, _, _)
RecordDisplacements(displacements, visits, newGadgets) ==
    IF visits = <<>> THEN displacements
    ELSE LET v == Head(visits)
         IN  RecordDisplacements(
                 MapPut(displacements, v.oldAddress,
                        Offsets(MapGet(newGadgets, v.sig), v.oldAddress)),
                 Tail(visits), newGadgets)

compareFingerprintRegionsSwapped(oldRegion, newRegion, sigOrder) ==
    [ Region |-> oldRegion.Region,
      Displacement |-> Sub64(oldRegion.Region.Address, newRegion.Region.Address),
      GadgetDisplacements |->
          RecordDisplacements(EmptyMap, Visits(oldRegion.Gadgets, sigOrder),
                              newRegion.Gadgets),
      AddedGadgets |->
          [sig \in {x \in DOMAIN newRegion.Gadgets : MapGet(oldRegion.Gadgets, x) = <<>>}
              |-> newRegion.Gadgets[sig]] ]

compareFingerprintRegions(oldRegion, newRegion, sigOrder) ==
    [ Region |-> oldRegion.Region,
      Displacement |-> Sub64(newRegion.Region.Address, oldRegion.Region.Address),
      GadgetDisplacements |->
          RecordDisplacements(EmptyMap, Visits(oldRegion.Gadgets, sigOrder),
                              newRegion.Gadgets),
      AddedGadgets |->
          [sig \in {x \in DOMAIN newRegion.Gadgets : MapGet(oldRegion.Gadgets, x) = <<>>}
              |-> newRegion.Gadgets[sig]] ]

\* oldOrder, newOrder: the orders in which the two range loops visit the
\* kinds of old and of new; sigOrders[kind]: the order in which the range
\* over old[kind].Gadgets visits its Sigs
compareFingerprintsNoOldCheck(o, n, oldOrder, newOrder, sigOrders) ==
    LET OnlyOld(k) == k \notin DOMAIN n
        Both(k) == k \in DOMAIN n
        removed == SelectSeq(oldOrder, OnlyOld)
        shared == SelectSeq(oldOrder, Both)
    IN  [ RemovedRegions |-> [i \in DOMAIN removed |-> o[removed[i]].Region],
          SharedRegionComparisons |->
              [i \in DOMAIN shared |->
                  compareFingerprintRegions(o[shared[i]], n[shared[i]],
                                            sigOrders[shared[i]])],
          AddedRegions |-> [i \in DOMAIN newOrder |-> n[newOrder[i]].Region] ]

compareFingerprints(o, n, oldOrder, newOrder, sigOrders) ==
    LET OnlyOld(k) == k \notin DOMAIN n
        Both(k) == k \in DOMAIN n
        OnlyNew(k) == k \notin DOMAIN o
        removed == SelectSeq(oldOrder, OnlyOld)
        shared == SelectSeq(oldOrder, Both)
        added == SelectSeq(newOrder, OnlyNew)
    IN  [ RemovedRegions |-> [i \in DOMAIN removed |-> o[removed[i]].Region],
          SharedRegionComparisons |->
              [i \in DOMAIN shared |->
                  compareFingerprintRegions(o[shared[i]], n[shared[i]],
                                            sigOrders[shared[i]])],
          AddedRegions |-> [i \in DOMAIN added |-> n[added[i]].Region] ]

\* the regions a fingerprint handed to the comparator can describe, one
\* per kind
CompareRegions ==
    { MemoryRegion(U64(4096), 2, ".text"),
      MemoryRegion(U64(8192), 2, ".plt"),
      MemoryRegion(U64(16384), 2, "[heap]") }

\* the address sequences the builder can file under one Sig of a region:
\* strictly ascending addresses of the region
AddrLists(region) ==
    LET a0 == region.Address
        a1 == Add64(region.Address, U64(1))
    IN  {<<a0>>, <<a1>>, <<a0, a1>>}

GadgetMaps(region) ==
    UNION {[S -> AddrLists(region)] : S \in (SUBSET Sigs) \ {{}}}

FingerprintRegions(kind) ==
    UNION {{[Region |-> r, Gadgets |-> g] : g \in GadgetMaps(r)} :
             r \in {x \in CompareRegions : x.Kind = kind}}

\* the (kind, sig, index) of every gadget address a fingerprint holds
GadgetSlots(f) ==
    UNION {UNION {{<<k, sig, i>> : i \in DOMAIN f[k].Gadgets[sig]} :
                    sig \in DOMAIN f[k].Gadgets} : k \in DOMAIN f}

\* the fingerprints the builder can produce with at most MaxGadgets gadgets
Fingerprints ==
    UNION {{f \in [K -> UNION {FingerprintRegions(k) : k \in K}] :
               /\ \A k \in K : f[k].Region.Kind = k
               /\ Cardinality(GadgetSlots(f)) <= MaxGadgets} :
             K \in {X \in SUBSET Kinds : Cardinality(X) <= MaxGadgets}}

\* relocations: by +0x1000, by -0x1000 (modulo 2^64), by nothing
Shifts == {U64(4096), <<65535, 65535, 65535, 61440>>, Zero64}

\* the fingerprint f with every region and gadget address increased by d
ShiftFp(f, d) ==
    [k \in DOMAIN f |->
        [ Region |-> [f[k].Region EXCEPT !.Address = Add64(@, d)],
          Gadgets |-> [sig \in DOMAIN f[k].Gadgets |->
                         [i \in DOMAIN f[k].Gadgets[sig] |->
                             Add64(f[k].Gadgets[sig][i], d)]] ]]

InitCompare ==
    /\ op = "compareFingerprints" /\ step = "start"
    /\ EnumIdle
    /\ old \in Fingerprints
    /\ new \in Fingerprints \cup {ShiftFp(old, d) : d \in Shifts}
    /\ cmp = [RemovedRegions |-> <<>>, AddedRegions |-> <<>>,
              SharedRegionComparisons |-> <<>>]
    /\ req = "none" /\ resp = "none"
    /\ DecIdle

Compare ==
    /\ op = "compareFingerprints" /\ step = "start"
    /\ \E oldOrder \in Orders(DOMAIN old) :
       \E newOrder \in Orders(DOMAIN new) :
       \E sigOrders \in [DOMAIN old \cap DOMAIN new -> UNION {Orders(S) : S \in SUBSET Sigs}] :
         /\ \A k \in DOMAIN sigOrders : Range(sigOrders[k]) = DOMAIN old[k].Gadgets
         /\ cmp' = compareFingerprints(old, new, oldOrder, newOrder, sigOrders)
    /\ step' = "done"
    /\ UNCHANGED <<op, pid, deferred, pc, softerrors, allGadgets, sect, softerrs,
                   allInstructions, section, fingerprint, ret, sys, reported, emitted>>
    /\ UNCHANGED <<old, new, httpVars, decVars>>

NextCompare == Compare

SpecCompare == InitCompare /\ [][NextCompare]_vars

(***************************************************************************)
(* The HTTP handlers (unnamed/part_001)                                    *)
(***************************************************************************)
\* the texts a numeric request parameter can carry
NumberTexts == {"", "2", "abc", "4294967296"}

\* the texts of the pid route variable
PidTexts == {"", "0", "7", "abc"}

\* strconv.ParseUint(s, 0, bitSize) on these texts: a syntax error for a
\* text that is no number, a range error for a number of more than bitSize
\* bits (the value is then the largest one of bitSize bits)
ParseUint(s, bitSize) ==
    CASE s \in {"0", "2", "7"} ->
            [value |-> U64(IF s = "0" THEN 0 ELSE IF s = "2" THEN 2 ELSE 7),
             err |-> "nil"]
      [] s = "4294967296" ->
            IF bitSize = 64
            THEN [value |-> <<0, 1, 0, 0>>, err |-> "nil"]
            ELSE [value |-> <<0, 0, 65535, 65535>>, err |-> "value out of range"]
      [] OTHER -> [value |-> Zero64, err |-> "invalid syntax"]

\* the access texts, as sequences of characters
AccessLetters == {"r", "R", "w", "x", "f", "z"}

AccessTexts ==
    UNION {[1..n -> AccessLetters] : n \in 0..2}
    \cup {<<"n", "o", "n", "e">>, <<"r", "w", "x", "f">>}

\* strings.ToUpper
ToUpper(s) ==
    LET Up(c) == CASE c = "r" -> "R" [] c = "w" -> "W" [] c = "x" -> "X"
                   [] c = "f" -> "F" [] c = "z" -> "Z" [] c = "n" -> "N"
                   [] c = "o" -> "O" [] c = "e" -> "E" [] OTHER -> c
    IN  [i \in DOMAIN s |-> Up(s[i])]

\* strings.Index(s, c) # -1
Contains(s, c) == \E i \in DOMAIN s : s[i] = c

\* strings.Replace(s, c, "", 1)
RemoveFirst(s, c) ==
    IF ~Contains(s, c) THEN s
    ELSE LET i == CHOOSE x \in DOMAIN s : s[x] = c /\ \A y \in 1..(x - 1) : s[y] # c
         IN  SubSeq(s, 1, i - 1) \o SubSeq(s, i + 1, Len(s))

\* the access specification of ROPMemoryRegionsHandler: the memaccess.Access
\* bits and what is left of the text once one R, W, X, F is taken out
ParseAccess(text) ==
    LET s0 == ToUpper(text)
        s1 == RemoveFirst(s0, "R")
        s2 == RemoveFirst(s1, "W")
        s3 == RemoveFirst(s2, "X")
        s4 == RemoveFirst(s3, "F")
    IN  IF s0 = <<"N", "O", "N", "E">> THEN [access |-> {}, rest |-> <<>>]
        ELSE IF s0 = <<>> THEN [access |-> {"Readable"}, rest |-> <<>>]
        ELSE [access |-> (IF Contains(s0, "R") THEN {"Readable"} ELSE {})
                         \cup (IF Contains(s1, "W") THEN {"Writable"} ELSE {})
                         \cup (IF Contains(s2, "X") THEN {"Executable"} ELSE {})
                         \cup (IF Contains(s3, "F") THEN {"Free"} ELSE {}),
              rest |-> s4]

\* what the library operation a handler invokes answers
LibOutcomes == [harderror : {"nil", "hard"}, softerrors : {<<>>, <<"soft">>}]

\* what lib.HasPolyverseTaint answers: an error or none, no soft errors
TaintOutcomes == [harderror : {"nil", "hard"}, softerrors : {<<>>}]

\* what the walk of a directory meets: an entry filepath.Walk cannot read or
\* lib.HasPolyverseTaint cannot check is an error of that entry alone
WalkOutcomes == [harderror : {"nil"}, softerrors : {<<>>, <<"soft">>}]

\* no library operation is invoked
NoLib == [harderror |-> "nil", softerrors |-> <<>>]

\* the texts of the query form value: the arms of the two switches, no
\* query at all, and a text no arm names
Queries == {"", "taints", "disasm", "gadgets", "fingerprint", "search",
            "regions", "region-fingerprints", "bogus"}

\* the texts of the string and regexp form values
SearchTexts == {"", "ret"}

\* the requests of a route under which the dispatcher runs one handler: the
\* form values the handler reads vary, the others are absent
RequestsFor(route, queries, stats, pids, lens, starts, ends, bases, accesses, searches, libs, marshals) ==
    [ route : {route}, query : queries, stat : stats, pid : pids, len : lens,
      start : starts, end : ends, base : bases, access : accesses,
      string : searches, regexp : searches, lib : libs, marshalFails : marshals ]

\* the requests that reach the handler named, or PidHandler's own answer
\* when the pid cannot be parsed
Requests(handler) ==
    CASE handler = "HealthHandler" ->
            RequestsFor("health", {""}, {""}, {""}, {""}, {""}, {""}, {""},
                        {<<>>}, {""}, {NoLib}, {FALSE})
      [] handler = "PidListingHandler" ->
            RequestsFor("pids", {""}, {""}, {""}, {""}, {""}, {""}, {""},
                        {<<>>}, {""}, LibOutcomes, BOOLEAN)
      [] handler = "DirectoryListingHandler" ->
            RequestsFor("files", Queries, {"dir"}, {""}, {""}, {""}, {""}, {""},
                        {<<>>}, {""}, WalkOutcomes, BOOLEAN)
      [] handler = "PolyverseTaintedFileHandler" ->
            RequestsFor("files", {"", "taints", "regions", "bogus"}, {"file", "err"},
                        {""}, {""}, {""}, {""}, {""},
                        {<<>>}, {""}, TaintOutcomes, BOOLEAN)
      [] handler = "FileDisasmHandler" ->
            RequestsFor("files", {"disasm"}, {"file", "err"}, {""}, {""},
                        NumberTexts, NumberTexts, {""},
                        {<<>>}, {""}, LibOutcomes, BOOLEAN)
      [] handler = "GadgetsFromFileHandler" ->
            RequestsFor("files", {"gadgets"}, {"file", "err"}, {""}, NumberTexts,
                        {""}, {""}, {""},
                        {<<>>}, {""}, LibOutcomes, BOOLEAN)
      [] handler = "FingerprintForFileHandler" ->
            RequestsFor("files", {"fingerprint"}, {"file", "err"}, {""}, {""},
                        {""}, {""}, {""},
                        {<<>>}, {""}, LibOutcomes, BOOLEAN)
      [] handler = "FileGadgetSearchHandler" ->
            RequestsFor("files", {"search"}, {"file", "err"}, {""}, {""},
                        {""}, {""}, {""},
                        {<<>>}, SearchTexts, {NoLib}, {FALSE})
      [] handler = "PolyverseTaintedPidHandler" ->
            RequestsFor("pid", {"", "taints", "bogus"}, {""}, PidTexts, {""},
                        {""}, {""}, {""},
                        {<<>>}, {""}, LibOutcomes, BOOLEAN)
      [] handler = "ProcessDisasmHandler" ->
            RequestsFor("pid", {"disasm"}, {""}, PidTexts, {""},
                        NumberTexts, NumberTexts, {""},
                        {<<>>}, {""}, LibOutcomes, BOOLEAN)
      [] handler = "GadgetsFromPidHandler" ->
            RequestsFor("pid", {"gadgets"}, {""}, PidTexts, NumberTexts,
                        NumberTexts, NumberTexts, NumberTexts,
                        {<<>>}, {""}, LibOutcomes, BOOLEAN)
      [] handler = "FingerprintForPidHandler" ->
            RequestsFor("pid", {"fingerprint"}, {""}, PidTexts, {""},
                        {""}, {""}, {""},
                        {<<>>}, {""}, LibOutcomes, BOOLEAN)
      [] handler = "PidGadgetSearchHandler" ->
            RequestsFor("pid", {"search"}, {""}, PidTexts, {""},
                        {""}, {""}, {""},
                        {<<>>}, SearchTexts, {NoLib}, {FALSE})
      [] handler = "ROPMemoryRegionsHandler" ->
            RequestsFor("pid", {"regions"}, {""}, PidTexts, {""},
                        {""}, {""}, {""},
                        AccessTexts, {""}, LibOutcomes, BOOLEAN)
      [] handler = "RegionFingerprintsHandler" ->
            RequestsFor("pid", {"region-fingerprints"}, {""}, PidTexts, {""},
                        {""}, {""}, {""},
                        {<<>>}, {""}, LibOutcomes, BOOLEAN)

Handlers ==
    {"HealthHandler", "PidListingHandler", "DirectoryListingHandler",
     "PolyverseTaintedFileHandler", "FileDisasmHandler", "GadgetsFromFileHandler",
     "FingerprintForFileHandler", "FileGadgetSearchHandler",
     "PolyverseTaintedPidHandler", "ProcessDisasmHandler", "GadgetsFromPidHandler",
     "FingerprintForPidHandler", "PidGadgetSearchHandler",
     "ROPMemoryRegionsHandler", "RegionFingerprintsHandler"}

\* http.Error(w, ..., status) without calling the library
Refuse(status) == [status |-> status, called |-> FALSE, logged |-> <<>>]

\* the response after the library call: logErrors has logged the soft errors
Answer(status, r) == [status |-> status, called |-> TRUE, logged |-> r.lib.softerrors]

\* the response after the library call of a handler that has not called
\* logErrors on this path
AnswerUnlogged(status) == [status |-> status, called |-> TRUE, logged |-> <<>>]

\* HealthHandler: the body is encoded, the status is the default one
HealthHandler(r) == Refuse(200)

\* DirectoryListingHandler: the walk function answers nil, or SkipDir for a
\* directory below the root, so filepath.Walk returns no error; the error of
\* an entry is logged and the walk goes on
DirectoryListingHandler(r) ==
    IF r.marshalFails THEN Answer(500, r)
    ELSE Answer(200, r)

\* PolyverseTaintedFileHandler
PolyverseTaintedFileHandler(r) ==
    IF r.lib.harderror # "nil" THEN Answer(500, r)
    ELSE IF r.marshalFails THEN AnswerUnlogged(500)
    ELSE AnswerUnlogged(200)

\* GadgetsFromFileHandler
GadgetsFromFileHandler(r) ==
    IF r.len # "" /\ ParseUint(r.len, 32).err # "nil" THEN Refuse(500)
    ELSE IF r.lib.harderror # "nil" THEN Answer(500, r)
    ELSE IF r.marshalFails THEN Answer(500, r)
    ELSE Answer(200, r)

\* FileDisasmHandler: start and end are parsed as 32-bit numbers
FileDisasmHandler(r) ==
    IF r.start # "" /\ ParseUint(r.start, 32).err # "nil" THEN Refuse(500)
    ELSE IF r.end # "" /\ ParseUint(r.end, 32).err # "nil" THEN Refuse(500)
    ELSE IF r.lib.harderror # "nil" THEN Answer(500, r)
    ELSE IF r.marshalFails THEN Answer(500, r)
    ELSE Answer(200, r)

\* ProcessDisasmHandler: start and end are parsed as 32-bit numbers
ProcessDisasmHandler(r) ==
    IF r.start # "" /\ ParseUint(r.start, 32).err # "nil" THEN Refuse(500)
    ELSE IF r.end # "" /\ ParseUint(r.end, 32).err # "nil" THEN Refuse(500)
    ELSE IF r.lib.harderror # "nil" THEN Answer(500, r)
    ELSE IF r.marshalFails THEN Answer(500, r)
    ELSE Answer(200, r)

\* FileGadgetSearchHandler: the string form value, else the regexp one
FileGadgetSearchHandler(r) ==
    LET search == IF r.string = "" THEN r.regexp ELSE r.string
    IN  IF search = "" THEN Refuse(500) ELSE Refuse(501)

\* PidGadgetSearchHandler
PidGadgetSearchHandler(r) ==
    LET search == IF r.string = "" THEN r.regexp ELSE r.string
    IN  IF search = "" THEN Refuse(500) ELSE Refuse(501)

\* PidListingHandler
PidListingHandler(r) ==
    IF r.lib.harderror # "nil" THEN Answer(500, r)
    ELSE IF r.marshalFails THEN Answer(500, r)
    ELSE Answer(200, r)

\* getPid: the pid route variable, the inspector's own pid for "" and "0"
getPid(r) ==
    IF r.pid # "" /\ r.pid # "0"
    THEN IF ParseUint(r.pid, 64).err # "nil"
         THEN [pidN |-> ParseUint(r.pid, 64).value, err |-> "Cannot parse PID."]
         ELSE [pidN |-> ParseUint(r.pid, 64).value, err |-> "nil"]
    ELSE [pidN |-> U64(Getpid), err |-> "nil"]

\* GadgetsFromPidHandler: after the library call the handler tests err, the
\* error of the last parse, which is nil there, so a hard error is logged
\* and the gadgets are written
GadgetsFromPidHandler(r) ==
    IF r.len # "" /\ ParseUint(r.len, 32).err # "nil" THEN Refuse(500)
    ELSE IF r.start # "" /\ ParseUint(r.start, 64).err # "nil" THEN Refuse(500)
    ELSE IF r.end # "" /\ ParseUint(r.end, 64).err # "nil" THEN Refuse(500)
    ELSE IF r.base # "" /\ ParseUint(r.base, 64).err # "nil" THEN Refuse(500)
    ELSE IF r.marshalFails THEN Answer(500, r)
    ELSE Answer(200, r)

\* PolyverseTaintedPidHandler: logErrors runs on the error path only
PolyverseTaintedPidHandler(r) ==
    IF r.lib.harderror # "nil" THEN Answer(500, r)
    ELSE IF r.marshalFails THEN AnswerUnlogged(500)
    ELSE AnswerUnlogged(200)

\* ROPMemoryRegionsHandler: the handler parses the pid route variable itself
ROPMemoryRegionsHandler(r) ==
    IF r.pid # "" /\ r.pid # "0" /\ ParseUint(r.pid, 64).err # "nil" THEN Refuse(400)
    ELSE IF ParseAccess(r.access).rest # <<>> THEN Refuse(400)
    ELSE IF r.lib.harderror # "nil" THEN Answer(400, r)
    ELSE IF r.marshalFails THEN Answer(400, r)
    ELSE Answer(200, r)

\* FingerprintForFileHandler, FingerprintForPidHandler and
\* RegionFingerprintsHandler, which the dispatchers call: a hard error of
\* the library is answered 500, soft errors are logged
FingerprintHandler(r) ==
    IF r.lib.harderror # "nil" THEN Answer(500, r)
    ELSE Answer(200, r)

\* FileHandler: a directory is listed whatever the query is; a path that
\* cannot be stat'ed is handled like a file
FileHandler(r) ==
    IF r.stat = "dir" THEN "DirectoryListingHandler"
    ELSE CASE r.query = "taints" -> "PolyverseTaintedFileHandler"
           [] r.query = "disasm" -> "FileDisasmHandler"
           [] r.query = "gadgets" -> "GadgetsFromFileHandler"
           [] r.query = "fingerprint" -> "FingerprintForFileHandler"
           [] r.query = "search" -> "FileGadgetSearchHandler"
           [] OTHER -> "PolyverseTaintedFileHandler"

\* PidHandler: it answers 400 itself when getPid fails
PidHandler(r) ==
    IF getPid(r).err # "nil" THEN "PidHandler"
    ELSE CASE r.query = "taints" -> "PolyverseTaintedPidHandler"
           [] r.query = "disasm" -> "ProcessDisasmHandler"
           [] r.query = "gadgets" -> "GadgetsFromPidHandler"
           [] r.query = "fingerprint" -> "FingerprintForPidHandler"
           [] r.query = "search" -> "PidGadgetSearchHandler"
           [] r.query = "regions" -> "ROPMemoryRegionsHandler"
           [] r.query = "region-fingerprints" -> "RegionFingerprintsHandler"
           [] OTHER -> "PolyverseTaintedPidHandler"

\* the function that writes the response of a request: HealthHandler and
\* PidListingHandler are routed to directly, the handlers of a file and of a
\* pid through FileHandler and PidHandler
Route(r) ==
    CASE r.route = "health" -> "HealthHandler"
      [] r.route = "pids" -> "PidListingHandler"
      [] r.route = "pid" -> PidHandler(r)
      [] r.route = "files" -> FileHandler(r)
      [] OTHER -> "none"

InitHTTP ==
    /\ op = "http" /\ step = "start"
    /\ EnumIdle
    /\ old = EmptyMap /\ new = EmptyMap
    /\ cmp = [RemovedRegions |-> <<>>, AddedRegions |-> <<>>,
              SharedRegionComparisons |-> <<>>]
    /\ req \in UNION {Requests(h) : h \in Handlers}
    /\ resp = Refuse(0)
    /\ DecIdle

httpFrame == <<op, pid, deferred, pc, softerrors, allGadgets, sect, softerrs,
               allInstructions, section, fingerprint, ret, sys, reported, emitted,
               old, new, cmp, req, opcodes, gadgetDec, decoded>>

\* the dispatcher is about to run the handler named
Running(handler) == op = "http" /\ step = "start" /\ Route(req) = handler

Handle_Health ==
    /\ Running("HealthHandler")
    /\ resp' = HealthHandler(req)
    /\ step' = "done"
    /\ UNCHANGED httpFrame

Handle_PidListing ==
    /\ Running("PidListingHandler")
    /\ resp' = PidListingHandler(req)
    /\ step' = "done"
    /\ UNCHANGED httpFrame

Handle_DirectoryListing ==
    /\ Running("DirectoryListingHandler")
    /\ resp' = DirectoryListingHandler(req)
    /\ step' = "done"
    /\ UNCHANGED httpFrame

Handle_PolyverseTaintedFile ==
    /\ Running("PolyverseTaintedFileHandler")
    /\ resp' = PolyverseTaintedFileHandler(req)
    /\ step' = "done"
    /\ UNCHANGED httpFrame

Handle_FileDisasm ==
    /\ Running("FileDisasmHandler")
    /\ resp' = FileDisasmHandler(req)
    /\ step' = "done"
    /\ UNCHANGED httpFrame

Handle_GadgetsFromFile ==
    /\ Running("GadgetsFromFileHandler")
    /\ resp' = GadgetsFromFileHandler(req)
    /\ step' = "done"
    /\ UNCHANGED httpFrame

Handle_FingerprintForFile ==
    /\ Running("FingerprintForFileHandler")
    /\ resp' = FingerprintHandler(req)
    /\ step' = "done"
    /\ UNCHANGED httpFrame

Handle_FileGadgetSearch ==
    /\ Running("FileGadgetSearchHandler")
    /\ resp' = FileGadgetSearchHandler(req)
    /\ step' = "done"
    /\ UNCHANGED httpFrame

\* PidHandler: getPid fails, http.Error with StatusBadRequest
Handle_BadPid ==
    /\ Running("PidHandler")
    /\ resp' = Refuse(400)
    /\ step' = "done"
    /\ UNCHANGED httpFrame

Handle_PolyverseTaintedPid ==
    /\ Running("PolyverseTaintedPidHandler")
    /\ resp' = PolyverseTaintedPidHandler(req)
    /\ step' = "done"
    /\ UNCHANGED httpFrame

Handle_ProcessDisasm ==
    /\ Running("ProcessDisasmHandler")
    /\ resp' = ProcessDisasmHandler(req)
    /\ step' = "done"
    /\ UNCHANGED httpFrame

Handle_GadgetsFromPid ==
    /\ Running("GadgetsFromPidHandler")
    /\ resp' = GadgetsFromPidHandler(req)
    /\ step' = "done"
    /\ UNCHANGED httpFrame

Handle_FingerprintForPid ==
    /\ Running("FingerprintForPidHandler")
    /\ resp' = FingerprintHandler(req)
    /\ step' = "done"
    /\ UNCHANGED httpFrame

Handle_PidGadgetSearch ==
    /\ Running("PidGadgetSearchHandler")
    /\ resp' = PidGadgetSearchHandler(req)
    /\ step' = "done"
    /\ UNCHANGED httpFrame

Handle_ROPMemoryRegions ==
    /\ Running("ROPMemoryRegionsHandler")
    /\ resp' = ROPMemoryRegionsHandler(req)
    /\ step' = "done"
    /\ UNCHANGED httpFrame

Handle_RegionFingerprints ==
    /\ Running("RegionFingerprintsHandler")
    /\ resp' = FingerprintHandler(req)
    /\ step' = "done"
    /\ UNCHANGED httpFrame

NextHTTP ==
    \/ Handle_Health \/ Handle_PidListing \/ Handle_DirectoryListing
    \/ Handle_PolyverseTaintedFile \/ Handle_FileDisasm \/ Handle_GadgetsFromFile
    \/ Handle_FingerprintForFile \/ Handle_FileGadgetSearch
    \/ Handle_BadPid \/ Handle_PolyverseTaintedPid \/ Handle_ProcessDisasm
    \/ Handle_GadgetsFromPid \/ Handle_FingerprintForPid \/ Handle_PidGadgetSearch
    \/ Handle_ROPMemoryRegions \/ Handle_RegionFingerprints

SpecHTTP == InitHTTP /\ [][NextHTTP]_vars

(***************************************************************************)
(* InstructionDecoder and GadgetDecoder                                    *)
(* (lib/architectures/amd64/x86Decoder.go)                                 *)
(***************************************************************************)
\* the byte values the slices are drawn from:
\*   144 (0x90) NOP, 195 (0xC3) RET, 176 (0xB0) MOV AL, imm8,
\*   6 (0x06) PUSH ES, which 64-bit mode does not have
Bytes == {6, 144, 176, 195}

RECURSIVE ByteSlices(_)
ByteSlices(n) ==
    IF n = 0 THEN {<<>>}
    ELSE LET shorter == ByteSlices(n - 1)
         IN  shorter \cup {Append(s, b) : s \in {t \in shorter : Len(t) = n - 1},
                                          b \in Bytes}

\* inst.String() of MOV AL, imm8
MovText(imm) ==
    CASE imm = 6   -> "MOV AL, 0x6"
      [] imm = 144 -> "MOV AL, 0x90"
      [] imm = 176 -> "MOV AL, 0xb0"
      [] imm = 195 -> "MOV AL, 0xc3"

\* x86asm.Decode(src, 64): the length and the text of the instruction the
\* slice starts with, or the error
Decode(src) ==
    IF Len(src) = 0 THEN [Len |-> 0, text |-> "", err |-> "truncated instruction"]
    ELSE CASE src[1] = 144 -> [Len |-> 1, text |-> "NOP", err |-> "nil"]
           [] src[1] = 195 -> [Len |-> 1, text |-> "RET", err |-> "nil"]
           [] src[1] = 176 ->
                IF Len(src) < 2
                THEN [Len |-> 0, text |-> "", err |-> "truncated instruction"]
                ELSE [Len |-> 2, text |-> MovText(src[2]), err |-> "nil"]
           [] OTHER -> [Len |-> 0, text |-> "", err |-> "unrecognized instruction"]

\* InstructionDecoder: the instruction (nil on error) and the error, wrapped
InstructionDecoder(src) ==
    LET inst == Decode(src)
    IN  IF inst.err # "nil"
        THEN [instruction |-> "nil",
              err |-> <<"Unable to decode instruction.", inst.err>>]
        ELSE [instruction |-> [Octets |-> SubSeq(src, 1, inst.Len),
                               DisAsm |-> inst.text],
              err |-> "nil"]

\* what GadgetDecoder leaves alone
decFrame == <<pid, deferred, pc, softerrors, allGadgets, sect, softerrs,
              allInstructions, section, fingerprint, ret, sys, reported, emitted,
              old, new, cmp, req, resp>>

\* for len(opcodes) > 0 is false on entry: return gadget, nil
GD_Empty ==
    /\ op = "GadgetDecoder" /\ step = "loop"
    /\ Len(opcodes) = 0
    /\ decoded' = [gadget |-> Slice(gadgetDec), err |-> "nil"]
    /\ step' = "done"
    /\ UNCHANGED <<op, opcodes, gadgetDec>>
    /\ UNCHANGED decFrame

\* InstructionDecoder fails: return nil, errors.Wrapf(err, ...)
GD_Error ==
    /\ op = "GadgetDecoder" /\ step = "loop"
    /\ Len(opcodes) > 0
    /\ LET d == InstructionDecoder(opcodes)
       IN  /\ d.err # "nil"
           /\ decoded' = [gadget |-> NilSlice,
                          err |-> <<"Error decoding underlying instruction.">> \o d.err]
    /\ step' = "done"
    /\ UNCHANGED <<op, opcodes, gadgetDec>>
    /\ UNCHANGED decFrame

\* an instruction is appended and bytes remain: opcodes = opcodes[gadlen:]
GD_Append ==
    /\ op = "GadgetDecoder" /\ step = "loop"
    /\ Len(opcodes) > 0
    /\ LET d == InstructionDecoder(opcodes)
       IN  /\ d.err = "nil"
           /\ LET gadlen == Len(d.instruction.Octets)
              IN  /\ ~(Len(opcodes) <= gadlen)
                  /\ gadgetDec' = Append(gadgetDec, d.instruction)
                  /\ opcodes' = SubSeq(opcodes, gadlen + 1, Len(opcodes))
    /\ UNCHANGED <<op, step, decoded>>
    /\ UNCHANGED decFrame

\* an instruction is appended and it used the last bytes: break, return
GD_Break ==
    /\ op = "GadgetDecoder" /\ step = "loop"
    /\ Len(opcodes) > 0
    /\ LET d == InstructionDecoder(opcodes)
       IN  /\ d.err = "nil"
           /\ LET gadlen == Len(d.instruction.Octets)
              IN  /\ Len(opcodes) <= gadlen
                  /\ gadgetDec' = Append(gadgetDec, d.instruction)
                  /\ decoded' = [gadget |-> Slice(gadgetDec'), err |-> "nil"]
    /\ step' = "done"
    /\ UNCHANGED <<op, opcodes>>
    /\ UNCHANGED decFrame

InitDecode ==
    /\ op = "GadgetDecoder" /\ step = "loop"
    /\ EnumIdle
    /\ old = EmptyMap /\ new = EmptyMap
    /\ cmp = [RemovedRegions |-> <<>>, AddedRegions |-> <<>>,
              SharedRegionComparisons |-> <<>>]
    /\ req = "none" /\ resp = "none"
    /\ opcodes \in ByteSlices(MaxBytes)
    /\ gadgetDec = <<>>
    /\ decoded = NoGadget

NextDecode == GD_Empty \/ GD_Error \/ GD_Append \/ GD_Break

SpecDecode == InitDecode /\ [][NextDecode]_vars

(***************************************************************************)
(* Claims about the enumerating operations (specification Spec).           *)
(***************************************************************************)
IsAttach(c) == c[1] = "PtraceAttach"
IsDetach(c) == c[1] = "PtraceDetach"

Attaches == Cardinality({i \in DOMAIN sys : IsAttach(sys[i])})
Detaches == Cardinality({i \in DOMAIN sys : IsDetach(sys[i])})

\* C1: GadgetsFromProcess on a foreign pid calls PtraceAttach before any
\* region is enumerated or copied; every return after a successful attach
\* (regions exhausted, hard error of NextMemoryRegionAccess, hard error of
\* CopyMemory) is preceded by exactly one PtraceDetach of that pid, made
\* after the last region call; on its own pid it neither attaches nor
\* detaches; a failed attach returns a hard error with no region read and
\* no detach.
C1_AttachDetachBracket ==
    op = "GadgetsFromProcess" =>
        /\ pid = Getpid =>
              \A i \in DOMAIN sys : ~IsAttach(sys[i]) /\ ~IsDetach(sys[i])
        /\ pid # Getpid =>
              /\ sys # <<>> => IsAttach(sys[1]) /\ sys[1][2] = pid
              /\ Attaches <= 1
              /\ step # "done" => Detaches = 0
              /\ step = "done" =>
                    IF ret.harderror = "PtraceAttach"
                    THEN /\ sys = << <<"PtraceAttach", pid>> >>
                         /\ ret.result = NilSlice
                    ELSE /\ Detaches = 1
                         /\ IsDetach(sys[Len(sys)]) /\ sys[Len(sys)][2] = pid

\* C1 witness: a foreign pid, attached, one region searched, then CopyMemory
\* fails on the next region and the function has returned after detaching
C1_Witness ==
    /\ op = "GadgetsFromProcess" /\ step = "done" /\ pid = Getpid + 1
    /\ ret.harderror = "CopyMemory"
    /\ allGadgets # <<>>
    /\ Detaches = 1

\* the gadgets (instructions) of the log of decoder output
EmittedItems == [i \in DOMAIN emitted |-> emitted[i].gadget]

\* C2: an enumerating operation (Fingerprint, GadgetsFromProcess,
\* DisassembleFile) that returns a non-nil hard error returns no partial
\* result: nothing collected before the failure is in the returned value.
C2_NoPartialResultOnHardError ==
    (step = "done" /\ ret.harderror # "nil") =>
        IF op = "Fingerprint"
        THEN DOMAIN ret.result = {}
        ELSE ret.result.elems = <<>>

\* the calls of NextMemoryRegionAccess made so far, in order
Enumerations ==
    LET IsEnumeration(c) == c[1] = "NextMemoryRegionAccess"
    IN  SelectSeq(sys, IsEnumeration)

\* the traversal has reached the end of the region source: the last call of
\* NextMemoryRegionAccess started where the traversal stands and found no
\* region (GadgetsFromProcess), nextSectionData reported no section
\* (DisassembleFile)
SourceExhausted ==
    IF op = "GadgetsFromProcess"
    THEN /\ Enumerations # <<>>
         /\ Enumerations[Len(Enumerations)][2] = pc
    ELSE ~sect.sectionExists

\* C3: in GadgetsFromProcess and DisassembleFile a region that reports only
\* soft errors never stops the traversal: while no hard error is reported
\* the traversal keeps every result and every soft error of every step of
\* the regions visited so far and goes on to the end of the region source,
\* and it then returns the results of every region visited and every soft
\* error reported.
C3_SoftErrorsNeverStopTraversal ==
    /\ (op = "GadgetsFromProcess" /\ step = "loop") =>
          /\ allGadgets = EmittedItems
          /\ softerrors = reported
    /\ (op = "DisassembleFile" /\ step = "loop") =>
          /\ allInstructions = EmittedItems
          /\ softerrs = reported
    /\ (op \in {"GadgetsFromProcess", "DisassembleFile"}
            /\ step = "done" /\ ret.harderror = "nil") =>
          /\ SourceExhausted
          /\ ret.result.elems = EmittedItems
          /\ ret.softerrors.elems = reported

\* C3 witness: GadgetsFromProcess on a foreign pid has returned without a
\* hard error; CopyMemory reported a soft error on one region and the
\* gadgets of a later region are in the result, with the soft error beside
\* them
C3_Witness ==
    /\ op = "GadgetsFromProcess" /\ step = "done" /\ ret.harderror = "nil"
    /\ \E i \in DOMAIN reported : \E j \in DOMAIN emitted :
          /\ reported[i].step = "CopyMemory"
          /\ Less64(reported[i].at, emitted[j].region.Address)
          /\ emitted[j].gadget \in Range(ret.result.elems)
          /\ reported[i] \in Range(ret.softerrors.elems)

\* the addresses of the gadgets with Sig sig emitted under kind, in order
EmittedAddresses(kind, sig) ==
    LET Match(e) == e.region.Kind = kind /\ e.gadget.Signature = sig
        hits == SelectSeq(emitted, Match)
    IN  [i \in DOMAIN hits |-> hits[i].gadget.Address]

\* C10: after any sequence of region and gadget events the fingerprint
\* holds one FingerprintRegion per kind under which a gadget was emitted,
\* and for every kind and Sig exactly the addresses of the gadgets of that
\* Sig emitted while a region of that kind was current, in emission order.
C10_FingerprintIsEmissionLog ==
    op = "Fingerprint" =>
        /\ DOMAIN fingerprint = {emitted[i].region.Kind : i \in DOMAIN emitted}
        /\ \A kind \in DOMAIN fingerprint :
              /\ fingerprint[kind].Region.Kind = kind
              /\ DOMAIN fingerprint[kind].Gadgets =
                    {sig \in Sigs : EmittedAddresses(kind, sig) # <<>>}
              /\ \A sig \in DOMAIN fingerprint[kind].Gadgets :
                    fingerprint[kind].Gadgets[sig] = EmittedAddresses(kind, sig)

\* C10 witness: gadgets were emitted under two regions of one kind and
\* under a region of another kind
C10_Witness ==
    /\ op = "Fingerprint" /\ step = "done"
    /\ Cardinality(DOMAIN fingerprint) = 2
    /\ \E i, j \in DOMAIN emitted :
          /\ emitted[i].region.Kind = emitted[j].region.Kind
          /\ emitted[i].region # emitted[j].region


(***************************************************************************)
(* Claims about the comparator (specification SpecCompare).                *)
(***************************************************************************)
Compared == op = "compareFingerprints" /\ step = "done"

\* how often x occurs in the sequence vec
Occurrences(vec, x) == Cardinality({j \in DOMAIN vec : vec[j] = x})

\* every gadget address a fingerprint region lists, under any Sig
AddressesOf(fr) == UNION {Range(fr.Gadgets[sig]) : sig \in DOMAIN fr.Gadgets}

\* the comparisons recorded for the kind k
SharedOf(k) ==
    {i \in DOMAIN cmp.SharedRegionComparisons :
        cmp.SharedRegionComparisons[i].Region.Kind = k}

RemovedOf(k) == {i \in DOMAIN cmp.RemovedRegions : cmp.RemovedRegions[i].Kind = k}

AddedOf(k) == {i \in DOMAIN cmp.AddedRegions : cmp.AddedRegions[i].Kind = k}

\* C4: compareFingerprints puts every kind of old and new into exactly one
\* of RemovedRegions (old only, old's region), AddedRegions (new only, new's
\* region) and SharedRegionComparisons (both, one comparison); no kind is
\* missing, none is listed twice, and nothing else is listed.
C4_EveryKindClassifiedOnce ==
    Compared =>
        /\ \A k \in DOMAIN old \cup DOMAIN new :
              /\ Cardinality(RemovedOf(k)) + Cardinality(AddedOf(k))
                    + Cardinality(SharedOf(k)) = 1
              /\ (k \in DOMAIN old /\ k \notin DOMAIN new) =>
                    \E i \in RemovedOf(k) : cmp.RemovedRegions[i] = old[k].Region
              /\ (k \in DOMAIN new /\ k \notin DOMAIN old) =>
                    \E i \in AddedOf(k) : cmp.AddedRegions[i] = new[k].Region
              /\ (k \in DOMAIN old /\ k \in DOMAIN new) => SharedOf(k) # {}
        /\ Len(cmp.RemovedRegions) + Len(cmp.AddedRegions)
              + Len(cmp.SharedRegionComparisons)
              = Cardinality(DOMAIN old \cup DOMAIN new)

\* C4 witness: a comparison with a removed, an added and a shared kind
C4_Witness ==
    /\ Compared
    /\ cmp.RemovedRegions # <<>> /\ cmp.AddedRegions # <<>>
    /\ cmp.SharedRegionComparisons # <<>>

\* C5: comparing a fingerprint with itself gives no added and no removed
\* region, Displacement 0 and no added gadgets for every region, and for
\* every gadget address a displacement vector with exactly one zero entry.
C5_CompareWithItself ==
    (Compared /\ new = old) =>
        /\ cmp.AddedRegions = <<>> /\ cmp.RemovedRegions = <<>>
        /\ \A k \in DOMAIN old : SharedOf(k) # {}
        /\ \A i \in DOMAIN cmp.SharedRegionComparisons :
              LET c == cmp.SharedRegionComparisons[i]
              IN  /\ c.Displacement = Zero64
                  /\ DOMAIN c.AddedGadgets = {}
                  /\ \A a \in AddressesOf(old[c.Region.Kind]) :
                        /\ a \in DOMAIN c.GadgetDisplacements
                        /\ Occurrences(c.GadgetDisplacements[a], Zero64) = 1

\* C5 witness: a fingerprint with two addresses under one Sig was compared
\* with itself
C5_Witness ==
    /\ Compared /\ new = old
    /\ \E k \in DOMAIN old : \E sig \in DOMAIN old[k].Gadgets :
          Len(old[k].Gadgets[sig]) = 2

\* C6: for a shared region, every Sig of old.Gadgets and every old address a
\* listed under it has a GadgetDisplacements entry whose vector is the
\* sequence (b - a) mod 2^64 over the addresses b of that Sig in new.Gadgets,
\* in new's order (empty when new lacks the Sig), whatever other Sigs the
\* region holds.
C6_VectorOfEverySigAddress ==
    Compared =>
        \A i \in DOMAIN cmp.SharedRegionComparisons :
            LET c == cmp.SharedRegionComparisons[i]
                o == old[c.Region.Kind]
                n == new[c.Region.Kind]
            IN  \A sig \in DOMAIN o.Gadgets : \A x \in DOMAIN o.Gadgets[sig] :
                    LET a == o.Gadgets[sig][x]
                        bs == MapGet(n.Gadgets, sig)
                    IN  /\ a \in DOMAIN c.GadgetDisplacements
                        /\ c.GadgetDisplacements[a] = [j \in DOMAIN bs |-> Sub64(bs[j], a)]

\* the relocated copy: no added, no removed region, one comparison per
\* region, each with Displacement d
ShiftedRegionsMatch(d) ==
    /\ cmp.AddedRegions = <<>> /\ cmp.RemovedRegions = <<>>
    /\ \A k \in DOMAIN old : Cardinality(SharedOf(k)) = 1
    /\ \A i \in DOMAIN cmp.SharedRegionComparisons :
          cmp.SharedRegionComparisons[i].Displacement = d

\* C7 as claimed: comparing f with its copy relocated by d gives no added or
\* removed region, one comparison per region with Displacement d, and every
\* GadgetDisplacements vector is the one-element vector [d].
C7_ShiftedCopyVectorsAreD ==
    \A d \in Shifts :
        (Compared /\ new = ShiftFp(old, d)) =>
            /\ ShiftedRegionsMatch(d)
            /\ \A i \in DOMAIN cmp.SharedRegionComparisons :
                  LET c == cmp.SharedRegionComparisons[i]
                  IN  \A a \in AddressesOf(old[c.Region.Kind]) :
                        /\ a \in DOMAIN c.GadgetDisplacements
                        /\ c.GadgetDisplacements[a] = <<d>>

\* C7 as amended: comparing f with its copy relocated by d gives no added
\* or removed region, one comparison per region with Displacement d, and
\* every GadgetDisplacements vector holds d exactly once; the vector is [d]
\* for an address all of whose Sigs list no other address.
C7_ShiftedCopyVectorsHoldDOnce ==
    \A d \in Shifts :
        (Compared /\ new = ShiftFp(old, d)) =>
            /\ ShiftedRegionsMatch(d)
            /\ \A i \in DOMAIN cmp.SharedRegionComparisons :
                  LET c == cmp.SharedRegionComparisons[i]
                      o == old[c.Region.Kind]
                  IN  \A a \in AddressesOf(o) :
                        /\ a \in DOMAIN c.GadgetDisplacements
                        /\ Occurrences(c.GadgetDisplacements[a], d) = 1
                        /\ (\A sig \in DOMAIN o.Gadgets :
                               a \in Range(o.Gadgets[sig]) => Len(o.Gadgets[sig]) = 1)
                             => c.GadgetDisplacements[a] = <<d>>

\* C7 witness: a fingerprint with two addresses under one Sig was compared
\* with its copy relocated by -0x1000, which wraps around 2^64
C7_Witness ==
    /\ Compared /\ old # EmptyMap
    /\ new = ShiftFp(old, <<65535, 65535, 65535, 61440>>)
    /\ \E k \in DOMAIN old : \E sig \in DOMAIN old[k].Gadgets :
          Len(old[k].Gadgets[sig]) = 2

RECURSIVE SumOfLens(_, _)
SumOfLens(displacements, addresses) ==
    IF addresses = <<>> THEN 0
    ELSE Len(MapGet(displacements, Head(addresses)))
           + SumOfLens(displacements, Tail(addresses))

\* C9: for a shared region and a Sig present in old.Gadgets and new.Gadgets,
\* the vectors recorded for the old addresses of the Sig hold together
\* |old addresses of Sig| * |new addresses of Sig| offsets.
C9_AllPairsRecorded ==
    Compared =>
        \A i \in DOMAIN cmp.SharedRegionComparisons :
            LET c == cmp.SharedRegionComparisons[i]
                o == old[c.Region.Kind]
                n == new[c.Region.Kind]
            IN  \A sig \in DOMAIN o.Gadgets \cap DOMAIN n.Gadgets :
                    SumOfLens(c.GadgetDisplacements, o.Gadgets[sig])
                        = Len(o.Gadgets[sig]) * Len(n.Gadgets[sig])


(***************************************************************************)
(* Claims about the HTTP handlers (specification SpecHTTP).                *)
(***************************************************************************)
\* the width the handler of a request parses start and end with
StartEndBits(r) ==
    IF Route(r) \in {"FileDisasmHandler", "ProcessDisasmHandler"} THEN 32 ELSE 64

\* a request parameter the handler reads cannot be parsed
BadParameter(r) ==
    \/ r.pid \notin {"", "0"} /\ ParseUint(r.pid, 64).err # "nil"
    \/ r.len # "" /\ ParseUint(r.len, 32).err # "nil"
    \/ \E text \in {r.start, r.end} :
          text # "" /\ ParseUint(text, StartEndBits(r)).err # "nil"
    \/ r.base # "" /\ ParseUint(r.base, 64).err # "nil"
    \/ ParseAccess(r.access).rest # <<>>

\* C8: a handler answers 500 when the library operation it invoked returned
\* a hard error, 400 when a request parameter (pid, len, start, end, base,
\* access) cannot be parsed, and does not fail the response for soft errors
\* alone.
C8_StatusOfErrors ==
    (op = "http" /\ step = "done") =>
        /\ (resp.called /\ req.lib.harderror # "nil") => resp.status = 500
        /\ BadParameter(req) => resp.status = 400
        /\ (resp.called /\ req.lib.harderror = "nil" /\ ~req.marshalFails)
              => resp.status = 200


(***************************************************************************)
(* Claims about GadgetDecoder (specification SpecDecode).                  *)
(***************************************************************************)
\* an instruction that transfers control: of the instructions Decode
\* knows, the return
ControlFlowTerminating(instr) == instr.DisAsm = "RET"

\* GadgetDecoder has returned
Decoded == op = "GadgetDecoder" /\ step = "done"

\* C11: GadgetDecoder stops appending at the first control-flow-terminating
\* instruction, so in a gadget it returns no instruction but the last one is
\* control-flow-terminating; and a decoding error of any instruction returns
\* an error with no gadget.
C11_OnlyLastTerminates ==
    Decoded =>
        /\ decoded.err = "nil" =>
              \A i \in 1..(Len(decoded.gadget.elems) - 1) :
                  ~ControlFlowTerminating(decoded.gadget.elems[i])
        /\ decoded.err # "nil" => decoded.gadget = NilSlice

\* C11, the part the decoder keeps: a decoding error of any instruction
\* returns an error and no gadget, whatever was appended before it.
C11_ErrorAbortsGadget ==
    Decoded => (decoded.err # "nil" => decoded.gadget = NilSlice)

=============================================================================
